---- MODULE Spec2Model ----
(***************************************************************************)
(* Bluetooth HID emulator: the D-Bus service that owns the two L2CAP       *)
(* channels (server/btk_server.py) and the mouse client that turns evdev   *)
(* events into 6-byte mouse reports and hands them to the service          *)
(* (keyboard/mouse_client.py).                                             *)
(*                                                                         *)
(* Python lists are 0-based, TLA+ sequences 1-based: mouse_state[i] of the *)
(* source is mouse_state[i+1] here.                                        *)
(***************************************************************************)
EXTENDS Integers, Sequences, FiniteSets, TLC

\* ---- bounds of the model ------------------------------------------------
MaxDelta == 200
MaxPeers == 2

\* ---- program constants --------------------------------------------------
P_CTRL == 17
P_INTR == 19
Backlog == 1

None == "None"
NoPeer == 0
Peers == 1..MaxPeers

\* evdev inputs handed to the client by read_loop()
KeyCodes == {"BTN_LEFT", "BTN_RIGHT", "BTN_MIDDLE", "BTN_SIDE"}
KeyValues == {0, 1, 2}
RelCodes == {"REL_X", "REL_Y", "REL_WHEEL", "REL_HWHEEL"}
Deltas == {-MaxDelta, -5, 127, MaxDelta}
OtherTypes == {"EV_SYN"}

VARIABLES
    \* server process (btk_server.py)
    spc,              \* position of the server process
    is_root,          \* os.geteuid() == 0
    sdp_ok,           \* sdp_record.xml can be opened
    bind_ok,          \* the two ports are free
    bus_name_owned,   \* org.yaptb.btkbservice is owned on the system bus
    discoverable,     \* hciconfig hci0 piscan was issued
    profiles,         \* the RegisterProfile calls made, with their options
    scontrol_port,    \* port scontrol is bound to (0: not bound)
    sinterrupt_port,  \* port sinterrupt is bound to (0: not bound)
    listening,        \* listen(1) was called on both server sockets
    ccontrol,         \* accepted control connection (peer) or NoPeer
    cinterrupt,       \* accepted interrupt connection (peer) or NoPeer
    \* Bluetooth peers and the L2CAP channels
    ctrl_backlog,     \* peers connected to port 17, not yet accepted
    intr_backlog,     \* peers connected to port 19, not yet accepted
    ctrl_open,        \* the accepted control channel is still open
    intr_open,        \* the accepted interrupt channel is still open
    intr_wire,        \* last datagram written to the interrupt channel
    ctrl_wire,        \* last datagram written to the control channel
    \* D-Bus between the two processes
    queue,            \* send_keys calls delivered, not yet dispatched
    reply,            \* reply to the client's pending call
    served,           \* the last call send_keys has handled, and how it ended
    \* client process (mouse_client.py)
    cpc,              \* position of the client process
    event,            \* the event variable of event_loop
    mouse_state       \* Mouse.mouse_state

vars == <<spc, is_root, sdp_ok, bind_ok, bus_name_owned, discoverable,
          profiles, scontrol_port, sinterrupt_port, listening,
          ccontrol, cinterrupt, ctrl_backlog, intr_backlog, ctrl_open,
          intr_open, intr_wire, ctrl_wire, queue, reply, served, cpc,
          event, mouse_state>>

serverVars == <<spc, is_root, sdp_ok, bind_ok, bus_name_owned, discoverable,
                profiles, scontrol_port, sinterrupt_port,
                listening, ccontrol, cinterrupt>>
channelVars == <<ctrl_backlog, intr_backlog, ctrl_open, intr_open>>
wireVars == <<intr_wire, ctrl_wire>>
clientVars == <<cpc, event, mouse_state>>

\* ---- pure helpers -------------------------------------------------------

\* bit i of a Python integer (two's complement, arbitrary precision)
Bit(x, i) == (x \div (2 ^ i)) % 2

\* x with the mask left out
And0xFF_unmasked(x) == x

\* x & 0xFF
And0xFF(x) == Bit(x, 0) + 2 * Bit(x, 1) + 4 * Bit(x, 2) + 8 * Bit(x, 3)
              + 16 * Bit(x, 4) + 32 * Bit(x, 5) + 64 * Bit(x, 6)
              + 128 * Bit(x, 7)

\* the 6-entry mouse report built in Mouse.__init__
InitialMouseState == <<161, 2, 0, 0, 0, 0>>

\* change_state_button leaving the motion fields as they are
change_state_button_keepmotion(ms, ev) ==
    LET mask == IF ev.code = "BTN_LEFT" THEN ev.value
                ELSE IF ev.code = "BTN_RIGHT" THEN 2 * ev.value
                ELSE IF ev.code = "BTN_MIDDLE" THEN 3 * ev.value
                ELSE ms[3]
    IN  <<ms[1], ms[2], mask, ms[4], ms[5], ms[6]>>

\* Mouse.change_state_button
change_state_button(ms, ev) ==
    LET mask == IF ev.code = "BTN_LEFT" THEN ev.value
                ELSE IF ev.code = "BTN_RIGHT" THEN 2 * ev.value
                ELSE IF ev.code = "BTN_MIDDLE" THEN 3 * ev.value
                ELSE ms[3]
    IN  <<ms[1], ms[2], mask, 0, 0, 0>>

\* change_state_movement adding the delta to what the fields hold
change_state_movement_accumulate(ms, ev) ==
    <<ms[1], ms[2], ms[3],
      IF ev.code = "REL_X" THEN And0xFF(ms[4] + ev.value) ELSE ms[4],
      IF ev.code = "REL_Y" THEN And0xFF(ms[5] + ev.value) ELSE ms[5],
      IF ev.code = "REL_WHEEL" THEN And0xFF(ms[6] + ev.value) ELSE ms[6]>>

\* change_state_movement clearing the button byte with the motion fields
change_state_movement_clearmask(ms, ev) ==
    <<ms[1], ms[2], 0,
      IF ev.code = "REL_X" THEN And0xFF(ev.value) ELSE 0,
      IF ev.code = "REL_Y" THEN And0xFF(ev.value) ELSE 0,
      IF ev.code = "REL_WHEEL" THEN And0xFF(ev.value) ELSE 0>>

\* Mouse.change_state_movement
change_state_movement(ms, ev) ==
    <<ms[1], ms[2], ms[3],
      IF ev.code = "REL_X" THEN And0xFF(ev.value) ELSE 0,
      IF ev.code = "REL_Y" THEN And0xFF(ev.value) ELSE 0,
      IF ev.code = "REL_WHEEL" THEN And0xFF(ev.value) ELSE 0>>

\* chr(key_code): a one-byte string, ValueError outside range(256)
ChrOk(k) == k \in 0..255
Chr_ascii(k) == <<k % 128>>
Chr(k) == <<k>>

\* the loop of BTKbService.send_keys building cmd_strs
RECURSIVE CmdStrs(_, _)
CmdStrs(keys, acc) ==
    IF keys = <<>> THEN acc
    ELSE CmdStrs(Tail(keys), acc \o Chr(Head(keys)))

\* BTKbDevice.send_string: the channel the message is written to
send_string(message) == [chan |-> "interrupt", data |-> message]

\* read_sdp_service_record going on without a record
read_sdp_service_record_noexit(ok) ==
    [exit |-> FALSE, record |-> IF ok THEN "sdp_record.xml" ELSE None]

\* BTKbDevice.read_sdp_service_record
read_sdp_service_record(ok) ==
    IF ok THEN [exit |-> FALSE, record |-> "sdp_record.xml"]
    ELSE [exit |-> TRUE, record |-> None]

\* state of the channel manager as the code holds it
ManagerState ==
    CASE spc = "accept_control" -> "Listening"
      [] spc = "accept_interrupt" -> "ControlAccepted"
      [] spc = "gtk_main" -> "Ready"
      [] OTHER -> "Idle"

\* a peer session is really there: both channels accepted and still open
SessionReady == spc = "gtk_main" /\ ctrl_open /\ intr_open

\* ---- initial state ------------------------------------------------------
Init ==
    /\ spc = "main"
    /\ is_root \in BOOLEAN
    /\ sdp_ok \in BOOLEAN
    /\ bind_ok \in BOOLEAN
    /\ bus_name_owned = FALSE
    /\ discoverable = FALSE
    /\ profiles = <<>>
    /\ scontrol_port = 0
    /\ sinterrupt_port = 0
    /\ listening = FALSE
    /\ ccontrol = NoPeer
    /\ cinterrupt = NoPeer
    /\ ctrl_backlog = <<>>
    /\ intr_backlog = <<>>
    /\ ctrl_open = FALSE
    /\ intr_open = FALSE
    /\ intr_wire = <<>>
    /\ ctrl_wire = <<>>
    /\ queue = <<>>
    /\ reply = "none"
    /\ served = [keys |-> <<>>, submitted |-> None, result |-> None]
    /\ cpc = "start"
    /\ event = [type |-> None, code |-> None, value |-> 0]
    /\ mouse_state = InitialMouseState

\* ---- server process -----------------------------------------------------

\* the process ends: its bus name is released, its sockets are closed and
\* the calls it has not answered fail at the caller
ServerExit ==
    /\ spc' = "exited"
    /\ bus_name_owned' = FALSE
    /\ listening' = FALSE
    /\ ctrl_backlog' = <<>>
    /\ intr_backlog' = <<>>
    /\ queue' = <<>>
    /\ reply' = IF cpc = "waiting" /\ queue # <<>> THEN "error" ELSE reply

\* __main__: only root can run the script
Main ==
    /\ spc = "main"
    /\ IF is_root
       THEN /\ spc' = "service_init"
            /\ UNCHANGED <<bus_name_owned, listening, ctrl_backlog,
                           intr_backlog, queue, reply>>
       ELSE ServerExit
    /\ UNCHANGED <<is_root, sdp_ok, bind_ok, discoverable, profiles,
                   scontrol_port, sinterrupt_port, ccontrol,
                   cinterrupt, ctrl_open, intr_open, wireVars, served,
                   clientVars>>

\* BTKbService.__init__, up to the construction of the device
ServiceInit ==
    /\ spc = "service_init"
    /\ bus_name_owned' = TRUE
    /\ spc' = "device_init"
    /\ UNCHANGED <<is_root, sdp_ok, bind_ok, discoverable, profiles,
                   scontrol_port, sinterrupt_port, listening,
                   ccontrol, cinterrupt, channelVars, wireVars, queue, reply,
                   served, clientVars>>

\* BTKbDevice.__init__: get_dev_address, power_up, init_bt_device
DeviceInit ==
    /\ spc = "device_init"
    /\ discoverable' = TRUE
    /\ spc' = "init_bluez_profile"
    /\ UNCHANGED <<is_root, sdp_ok, bind_ok, bus_name_owned, profiles,
                   scontrol_port, sinterrupt_port, listening,
                   ccontrol, cinterrupt, channelVars, wireVars, queue, reply,
                   served, clientVars>>

\* init_bluez_profile going on to listen() without RegisterProfile
InitBluezProfile_unregistered ==
    /\ spc = "init_bluez_profile"
    /\ LET r == read_sdp_service_record(sdp_ok)
       IN  IF r.exit
           THEN ServerExit
           ELSE /\ spc' = "listen"
                /\ UNCHANGED <<bus_name_owned, listening, ctrl_backlog,
                               intr_backlog, queue, reply>>
    /\ UNCHANGED <<is_root, sdp_ok, bind_ok, discoverable, profiles,
                   scontrol_port, sinterrupt_port, ccontrol, cinterrupt,
                   ctrl_open, intr_open, wireVars, served, clientVars>>

\* BTKbDevice.init_bluez_profile
InitBluezProfile ==
    /\ spc = "init_bluez_profile"
    /\ LET r == read_sdp_service_record(sdp_ok)
       IN  IF r.exit
           THEN /\ ServerExit
                /\ UNCHANGED profiles
           ELSE /\ profiles' = Append(profiles,
                                     [ServiceRecord |-> r.record,
                                      Role |-> "server",
                                      RequireAuthentication |-> FALSE,
                                      RequireAuthorization |-> FALSE])
                /\ spc' = "listen"
                /\ UNCHANGED <<bus_name_owned, listening, ctrl_backlog,
                               intr_backlog, queue, reply>>
    /\ UNCHANGED <<is_root, sdp_ok, bind_ok, discoverable, scontrol_port,
                   sinterrupt_port, ccontrol, cinterrupt, ctrl_open,
                   intr_open, wireVars, served, clientVars>>

\* listen() going straight to the accept on the interrupt socket
Listen_skipcontrol ==
    /\ spc = "listen"
    /\ IF bind_ok
       THEN /\ scontrol_port' = P_CTRL
            /\ sinterrupt_port' = P_INTR
            /\ listening' = TRUE
            /\ spc' = "accept_interrupt"
            /\ UNCHANGED <<bus_name_owned, ctrl_backlog, intr_backlog,
                           queue, reply>>
       ELSE /\ ServerExit
            /\ UNCHANGED <<scontrol_port, sinterrupt_port>>
    /\ UNCHANGED <<is_root, sdp_ok, bind_ok, discoverable, profiles,
                   ccontrol, cinterrupt, ctrl_open, intr_open, wireVars,
                   served, clientVars>>

\* BTKbDevice.listen: create, bind and listen on the two server sockets
Listen ==
    /\ spc = "listen"
    /\ IF bind_ok
       THEN /\ scontrol_port' = P_CTRL
            /\ sinterrupt_port' = P_INTR
            /\ listening' = TRUE
            /\ spc' = "accept_control"
            /\ UNCHANGED <<bus_name_owned, ctrl_backlog, intr_backlog,
                           queue, reply>>
       ELSE /\ ServerExit
            /\ UNCHANGED <<scontrol_port, sinterrupt_port>>
    /\ UNCHANGED <<is_root, sdp_ok, bind_ok, discoverable, profiles,
                   ccontrol, cinterrupt, ctrl_open, intr_open, wireVars,
                   served, clientVars>>

\* the accept on the control socket repeated while a session is held
AcceptControl_again ==
    /\ spc \in {"accept_control", "gtk_main"}
    /\ ctrl_backlog # <<>>
    /\ ccontrol' = Head(ctrl_backlog)
    /\ ctrl_backlog' = Tail(ctrl_backlog)
    /\ ctrl_open' = TRUE
    /\ spc' = IF spc = "accept_control" THEN "accept_interrupt" ELSE spc
    /\ UNCHANGED <<is_root, sdp_ok, bind_ok, bus_name_owned, discoverable,
                   profiles, scontrol_port, sinterrupt_port,
                   listening, cinterrupt, intr_backlog, intr_open, wireVars,
                   queue, reply, served, clientVars>>

\* BTKbDevice.listen: self.scontrol.accept()
AcceptControl ==
    /\ spc = "accept_control"
    /\ ctrl_backlog # <<>>
    /\ ccontrol' = Head(ctrl_backlog)
    /\ ctrl_backlog' = Tail(ctrl_backlog)
    /\ ctrl_open' = TRUE
    /\ spc' = "accept_interrupt"
    /\ UNCHANGED <<is_root, sdp_ok, bind_ok, bus_name_owned, discoverable,
                   profiles, scontrol_port, sinterrupt_port,
                   listening, cinterrupt, intr_backlog, intr_open, wireVars,
                   queue, reply, served, clientVars>>

\* the accept on the interrupt socket not waiting for the control one
AcceptInterrupt_unordered ==
    /\ spc \in {"accept_control", "accept_interrupt"}
    /\ intr_backlog # <<>>
    /\ cinterrupt' = Head(intr_backlog)
    /\ intr_backlog' = Tail(intr_backlog)
    /\ intr_open' = TRUE
    /\ spc' = "gtk_main"
    /\ UNCHANGED <<is_root, sdp_ok, bind_ok, bus_name_owned, discoverable,
                   profiles, scontrol_port, sinterrupt_port,
                   listening, ccontrol, ctrl_backlog, ctrl_open, wireVars,
                   queue, reply, served, clientVars>>

\* BTKbDevice.listen: self.sinterrupt.accept()
AcceptInterrupt ==
    /\ spc = "accept_interrupt"
    /\ intr_backlog # <<>>
    /\ cinterrupt' = Head(intr_backlog)
    /\ intr_backlog' = Tail(intr_backlog)
    /\ intr_open' = TRUE
    /\ spc' = "gtk_main"
    /\ UNCHANGED <<is_root, sdp_ok, bind_ok, bus_name_owned, discoverable,
                   profiles, scontrol_port, sinterrupt_port,
                   listening, ccontrol, ctrl_backlog, ctrl_open, wireVars,
                   queue, reply, served, clientVars>>

\* gtk.main() dispatches one queued call to BTKbService.send_keys
SendKeys ==
    /\ spc = "gtk_main"
    /\ queue # <<>>
    /\ LET keys == Head(queue).keys
           out == send_string(CmdStrs(keys, <<>>))
           sent == (\A i \in 1..Len(keys) : ChrOk(keys[i]))
                   /\ (IF out.chan = "interrupt" THEN intr_open ELSE ctrl_open)
       IN  /\ intr_wire' = IF sent /\ out.chan = "interrupt"
                           THEN out.data ELSE intr_wire
           /\ ctrl_wire' = IF sent /\ out.chan = "control"
                           THEN out.data ELSE ctrl_wire
           /\ reply' = IF cpc = "waiting"
                       THEN (IF sent THEN "ok" ELSE "error")
                       ELSE reply
           /\ served' = [keys |-> keys,
                         submitted |-> Head(queue).submitted,
                         result |-> IF sent THEN "sent" ELSE "error"]
    /\ queue' = Tail(queue)
    /\ UNCHANGED <<serverVars, channelVars, clientVars>>

\* ---- Bluetooth peers ----------------------------------------------------

PeerConnectControl(p) ==
    /\ listening
    /\ Len(ctrl_backlog) < Backlog
    /\ ~(ccontrol = p /\ ctrl_open)
    /\ \A i \in 1..Len(ctrl_backlog) : ctrl_backlog[i] # p
    /\ ctrl_backlog' = Append(ctrl_backlog, p)
    /\ UNCHANGED <<serverVars, intr_backlog, ctrl_open, intr_open, wireVars,
                   queue, reply, served, clientVars>>

PeerConnectInterrupt(p) ==
    /\ listening
    /\ Len(intr_backlog) < Backlog
    /\ ~(cinterrupt = p /\ intr_open)
    /\ \A i \in 1..Len(intr_backlog) : intr_backlog[i] # p
    /\ intr_backlog' = Append(intr_backlog, p)
    /\ UNCHANGED <<serverVars, ctrl_backlog, ctrl_open, intr_open, wireVars,
                   queue, reply, served, clientVars>>

\* the peer closes the accepted control channel
PeerCloseControl ==
    /\ ctrl_open
    /\ ctrl_open' = FALSE
    /\ UNCHANGED <<serverVars, ctrl_backlog, intr_backlog, intr_open,
                   wireVars, queue, reply, served, clientVars>>

\* the peer closes the accepted interrupt channel
PeerCloseInterrupt ==
    /\ intr_open
    /\ intr_open' = FALSE
    /\ UNCHANGED <<serverVars, ctrl_backlog, intr_backlog, ctrl_open,
                   wireVars, queue, reply, served, clientVars>>

\* ---- client process -----------------------------------------------------

\* Mouse.__init__: get_object raises when nobody owns the service name
MouseInit ==
    /\ cpc = "start"
    /\ mouse_state' = InitialMouseState
    /\ cpc' = IF bus_name_owned THEN "event_loop" ELSE "crashed"
    /\ UNCHANGED <<serverVars, channelVars, wireVars, queue, reply, served,
                   event>>

\* Mouse.send_input: a blocking call of send_keys with a copy of the report
send_input(ms) ==
    IF bus_name_owned
    THEN /\ queue' = Append(queue, [keys |-> ms,
                                    submitted |-> ManagerState])
         /\ reply' = "none"
         /\ cpc' = "waiting"
    ELSE /\ cpc' = "crashed"
         /\ UNCHANGED <<queue, reply>>

\* event_loop without the test event.value < 2
KeyEvent_norepeatfilter(code, value) ==
    /\ cpc = "event_loop"
    /\ event' = [type |-> "EV_KEY", code |-> code, value |-> value]
    /\ mouse_state' = change_state_button(mouse_state, event')
    /\ send_input(mouse_state')
    /\ UNCHANGED <<serverVars, channelVars, wireVars, served>>

\* event_loop on an EV_KEY event
KeyEvent(code, value) ==
    /\ cpc = "event_loop"
    /\ event' = [type |-> "EV_KEY", code |-> code, value |-> value]
    /\ IF value < 2
       THEN /\ mouse_state' = change_state_button(mouse_state, event')
            /\ send_input(mouse_state')
       ELSE UNCHANGED <<mouse_state, queue, reply, cpc>>
    /\ UNCHANGED <<serverVars, channelVars, wireVars, served>>

\* event_loop on an EV_REL event
RelEvent(code, value) ==
    /\ cpc = "event_loop"
    /\ event' = [type |-> "EV_REL", code |-> code, value |-> value]
    /\ mouse_state' = change_state_movement(mouse_state, event')
    /\ send_input(mouse_state')
    /\ UNCHANGED <<serverVars, channelVars, wireVars, served>>

\* event_loop on an event of any other type
OtherEvent(type) ==
    /\ cpc = "event_loop"
    /\ event' = [type |-> type, code |-> "SYN_REPORT", value |-> 0]
    /\ UNCHANGED <<serverVars, channelVars, wireVars, queue, reply, served,
                   cpc, mouse_state>>

\* the blocking call returns: a reply lets the loop go on, an error reply is
\* a DBusException nobody catches
SendInputReturn ==
    /\ cpc = "waiting"
    /\ reply # "none"
    /\ cpc' = IF reply = "ok" THEN "event_loop" ELSE "crashed"
    /\ reply' = "none"
    /\ UNCHANGED <<serverVars, channelVars, wireVars, queue, served, event,
                   mouse_state>>

\* the blocking call gets no reply in time: a DBusException nobody catches,
\* while the call stays in the service's queue
SendInputTimeout ==
    /\ cpc = "waiting"
    /\ reply = "none"
    /\ queue # <<>>
    /\ cpc' = "crashed"
    /\ UNCHANGED <<serverVars, channelVars, wireVars, queue, reply, served,
                   event, mouse_state>>

\* ---- specification ------------------------------------------------------
Next ==
    \/ Main
    \/ ServiceInit
    \/ DeviceInit
    \/ InitBluezProfile
    \/ Listen
    \/ AcceptControl
    \/ AcceptInterrupt
    \/ SendKeys
    \/ \E p \in Peers : PeerConnectControl(p)
    \/ \E p \in Peers : PeerConnectInterrupt(p)
    \/ PeerCloseControl
    \/ PeerCloseInterrupt
    \/ MouseInit
    \/ \E c \in KeyCodes, v \in KeyValues : KeyEvent(c, v)
    \/ \E c \in RelCodes, d \in Deltas : RelEvent(c, d)
    \/ \E t \in OtherTypes : OtherEvent(t)
    \/ SendInputReturn
    \/ SendInputTimeout

Spec == Init /\ [][Next]_vars

\* ---- properties ---------------------------------------------------------

Buttons == {"BTN_LEFT", "BTN_RIGHT", "BTN_MIDDLE"}
Axes == {"REL_X", "REL_Y", "REL_WHEEL"}

\* C1: the motion byte of the axis of a relative-motion event with delta d
\* is the signed 8-bit encoding of clamp(d, -127, 127); +200 on X with no
\* button held gives the report [0xA1, 0x02, 0x00, 127, 0, 0].
C1_Saturates ==
    (event.type = "EV_REL" /\ event.code \in Axes) =>
        LET clamped == IF event.value > 127 THEN 127
                       ELSE IF event.value < -127 THEN -127
                       ELSE event.value
            int8 == IF clamped < 0 THEN clamped + 256 ELSE clamped
            field == CASE event.code = "REL_X" -> 4
                       [] event.code = "REL_Y" -> 5
                       [] event.code = "REL_WHEEL" -> 6
        IN  mouse_state[field] = int8

\* C2: the button mask has one bit per button (left 0, right 1, middle 2);
\* after a press or release of a button its bit equals the event's value and
\* the bits of the two other buttons are as they were.
C2_MaskRoundTrip ==
    [][(/\ cpc = "event_loop"
        /\ cpc' # "event_loop"
        /\ event'.type = "EV_KEY"
        /\ event'.code \in Buttons)
       => \A b \in Buttons :
            LET bit == CASE b = "BTN_LEFT" -> 0
                         [] b = "BTN_RIGHT" -> 1
                         [] b = "BTN_MIDDLE" -> 2
            IN  Bit(mouse_state'[3], bit) =
                    IF b = event'.code THEN event'.value
                    ELSE Bit(mouse_state[3], bit)]_vars

\* C3: a send attempted while no peer session is ready leaves the report
\* state as it was before the triggering event, and the call ends in an
\* error.
C3_NoSessionNoChange ==
    [][/\ (cpc = "event_loop" /\ cpc' # "event_loop" /\ ~SessionReady)
            => mouse_state' = mouse_state
       /\ (cpc = "waiting" /\ reply = "none" /\ reply' # "none"
           /\ Head(queue).submitted # "Ready")
            => reply' = "error"]_vars

\* C4: a report submitted before both channels were accepted is never
\* written to the interrupt channel.
C4_DroppedNotDeferred ==
    served.result = "sent" => served.submitted = "Ready"

\* C5: once a send has found the interrupt channel closed by the peer, the
\* manager has left Ready and is idle or listening for the next peer.
C5_LeavesReady ==
    (served.result = "error" /\ ~intr_open) =>
        ManagerState \in {"Idle", "Listening"}

\* C6: whatever the outcome of a send, the input-forwarding loop goes on to
\* the next event.
C6_LoopKeepsRunning ==
    [][(cpc = "waiting" /\ cpc' # "waiting") => cpc' = "event_loop"]_vars

\* C7: the bytes written for a call of send_keys with integers in 0..255
\* are exactly these integers, in order, on the interrupt channel; nothing
\* is written to the control channel.
C7_BytesAsGiven ==
    /\ ctrl_wire = <<>>
    /\ served.result = "sent" => intr_wire = served.keys

C7_Witness ==
    /\ served.result = "sent"
    /\ served.keys = <<161, 2, 3, 0, 0, 0>>
    /\ intr_wire = <<161, 2, 3, 0, 0, 0>>

\* C8: every report the client sends has 6 entries, starts with 0xA1, 0x02,
\* has all entries in 0..255 and a button mask in 0..7.
C8_WellFormed ==
    \A i \in 1..Len(queue) :
        LET r == queue[i].keys
        IN  /\ Len(r) = 6
            /\ r[1] = 161
            /\ r[2] = 2
            /\ \A j \in 1..6 : r[j] \in 0..255
            /\ r[3] \in 0..7

C8_Witness ==
    /\ queue # <<>>
    /\ event = [type |-> "EV_REL", code |-> "REL_Y", value |-> -5]
    /\ Head(queue).keys[5] = 251

\* C9: an event with an unrecognised code (a key that is no mouse button, an
\* axis that is not X, Y or wheel) changes no report state and sends nothing.
C9_UnknownCodeFiltered ==
    [][(/\ cpc = "event_loop"
        /\ (event' # event \/ cpc' # cpc)
        /\ \/ (event'.type = "EV_KEY" /\ event'.code \notin Buttons)
           \/ (event'.type = "EV_REL" /\ event'.code \notin Axes))
       => /\ mouse_state' = mouse_state
          /\ queue' = queue
          /\ cpc' = "event_loop"]_vars

\* C10: when the service record cannot be read the process ends without
\* having registered a profile and without binding, listening or accepting.
C10_FatalWithoutRecord ==
    ~sdp_ok =>
        /\ spc \in {"main", "service_init", "device_init",
                    "init_bluez_profile", "exited"}
        /\ profiles = <<>>
        /\ scontrol_port = 0
        /\ sinterrupt_port = 0
        /\ ~listening
        /\ ccontrol = NoPeer
        /\ cinterrupt = NoPeer

C10_Witness ==
    /\ ~sdp_ok
    /\ discoverable
    /\ spc = "exited"
    /\ profiles = <<>>

\* C11: the report of a relative-motion event carries only that event's
\* axis: the field of the axis is a function of the event's delta alone,
\* the other motion fields are zero, whatever events came before.
C11_OnlyEventAxis ==
    event.type = "EV_REL" =>
        /\ mouse_state[4] =
             IF event.code = "REL_X" THEN event.value % 256 ELSE 0
        /\ mouse_state[5] =
             IF event.code = "REL_Y" THEN event.value % 256 ELSE 0
        /\ mouse_state[6] =
             IF event.code = "REL_WHEEL" THEN event.value % 256 ELSE 0
        /\ (cpc = "waiting" /\ queue # <<>>) =>
             queue[Len(queue)].keys = mouse_state

C11_Witness ==
    /\ served.result = "sent"
    /\ served.keys = <<161, 2, 0, 127, 0, 0>>
    /\ event = [type |-> "EV_REL", code |-> "REL_Y", value |-> -5]
    /\ cpc = "waiting"
    /\ Head(queue).keys = <<161, 2, 0, 0, 251, 0>>

\* C12: the report of a button press or release has the three motion fields
\* at zero, whatever motion came before.
C12_ButtonReportNoMotion ==
    (event.type = "EV_KEY" /\ event.value < 2) =>
        /\ mouse_state[4] = 0 /\ mouse_state[5] = 0 /\ mouse_state[6] = 0
        /\ (cpc = "waiting" /\ queue # <<>>) =>
             queue[Len(queue)].keys = mouse_state

C12_Witness ==
    /\ served.result = "sent"
    /\ served.keys = <<161, 2, 0, 0, 56, 0>>
    /\ event = [type |-> "EV_KEY", code |-> "BTN_RIGHT", value |-> 1]
    /\ cpc = "waiting"
    /\ Head(queue).keys = <<161, 2, 2, 0, 0, 0>>

\* C13: the interrupt channel is accepted only after the control channel,
\* both server sockets are bound (control 17, interrupt 19) and listening
\* before either accept, and the manager is never Ready with one channel.
C13_AcceptOrder ==
    /\ cinterrupt # NoPeer => ccontrol # NoPeer
    /\ (ccontrol # NoPeer \/ cinterrupt # NoPeer) =>
         (scontrol_port = 17 /\ sinterrupt_port = 19 /\ listening)
    /\ ManagerState = "Ready" => (ccontrol # NoPeer /\ cinterrupt # NoPeer)
    /\ ManagerState = "ControlAccepted" =>
         (ccontrol # NoPeer /\ cinterrupt = NoPeer)

C13_Witness ==
    /\ spc = "accept_interrupt"
    /\ ccontrol # NoPeer
    /\ cinterrupt = NoPeer
    /\ intr_backlog # <<>>
    /\ scontrol_port = 17
    /\ sinterrupt_port = 19

\* C14: RegisterProfile is called at most once, it has been called once
\* whenever a server socket is bound or listening, and its options are role
\* "server", RequireAuthentication false, RequireAuthorization false.
C14_RegisteredOnceFirst ==
    /\ Len(profiles) <= 1
    /\ (scontrol_port # 0 \/ sinterrupt_port # 0 \/ listening
        \/ spc \in {"listen", "accept_control", "accept_interrupt",
                    "gtk_main"})
         => Len(profiles) = 1
    /\ \A i \in 1..Len(profiles) :
         /\ profiles[i].Role = "server"
         /\ profiles[i].RequireAuthentication = FALSE
         /\ profiles[i].RequireAuthorization = FALSE

C14_Witness ==
    /\ Len(profiles) = 1
    /\ listening
    /\ scontrol_port = 17
    /\ profiles[1].Role = "server"

\* C15: a key event with value 0 or 1 and a relative-motion event each make
\* one call of send_keys with the report as just updated; any other event
\* sends nothing and changes no report state; a call is made by an event
\* only and is handled by the service once, in order.
C15_OneSendPerEvent ==
    [][/\ (cpc = "event_loop" /\ (event' # event \/ cpc' # cpc)) =>
            IF \/ (event'.type = "EV_KEY" /\ event'.value < 2)
               \/ event'.type = "EV_REL"
            THEN \/ /\ cpc' = "waiting"
                    /\ Len(queue') = Len(queue) + 1
                    /\ queue'[Len(queue')].keys = mouse_state'
                    /\ SubSeq(queue', 1, Len(queue)) = queue
                 \/ /\ cpc' = "crashed"
                    /\ ~bus_name_owned
                    /\ queue' = queue
            ELSE /\ mouse_state' = mouse_state
                 /\ queue' = queue
                 /\ cpc' = cpc
       /\ cpc # "event_loop" =>
            (Len(queue') <= Len(queue) /\ mouse_state' = mouse_state)
       /\ served' # served =>
            (queue # <<>> /\ queue' = Tail(queue)
             /\ served'.keys = Head(queue).keys)]_vars

C15_Witness ==
    /\ event = [type |-> "EV_KEY", code |-> "BTN_LEFT", value |-> 2]
    /\ cpc = "event_loop"
    /\ queue = <<>>
    /\ served.result = "sent"
    /\ served.keys = <<161, 2, 1, 0, 0, 0>>
    /\ mouse_state = <<161, 2, 1, 0, 0, 0>>

\* C16: an accepted handle is never replaced: once set, ccontrol and
\* cinterrupt stay, and a manager that is Ready stays Ready with the same
\* two handles whatever peers connect.
C16_OneSession ==
    [][/\ ccontrol # NoPeer => ccontrol' = ccontrol
       /\ cinterrupt # NoPeer => cinterrupt' = cinterrupt
       /\ ManagerState = "Ready" =>
            (ManagerState' = "Ready" /\ ccontrol' = ccontrol
             /\ cinterrupt' = cinterrupt
             /\ Len(ctrl_backlog') >= Len(ctrl_backlog)
             /\ Len(intr_backlog') >= Len(intr_backlog))]_vars

C16_Witness ==
    /\ ManagerState = "Ready"
    /\ ctrl_open
    /\ intr_open
    /\ ctrl_backlog # <<>>
    /\ intr_backlog # <<>>
    /\ Head(ctrl_backlog) # ccontrol

\* C17: a datagram has been written to the interrupt channel only when
\* listen() has returned with both channels accepted.
C17_WriteOnlyWhenAccepted ==
    (intr_wire # <<>> \/ served.result = "sent") =>
        /\ spc = "gtk_main"
        /\ ccontrol # NoPeer
        /\ cinterrupt # NoPeer

C17_Witness ==
    /\ served.result = "sent"
    /\ served.submitted = "ControlAccepted"
    /\ intr_wire = <<161, 2, 1, 0, 0, 0>>
    /\ spc = "gtk_main"

\* C18: a relative-motion event leaves the button byte as it was, and the
\* report sent for it carries that byte.
C18_MotionKeepsMask ==
    [][(/\ cpc = "event_loop"
        /\ cpc' # "event_loop"
        /\ event'.type = "EV_REL")
       => /\ mouse_state'[3] = mouse_state[3]
          /\ cpc' = "waiting" =>
               queue'[Len(queue')].keys[3] = mouse_state[3]]_vars

C18_Witness ==
    /\ served.result = "sent"
    /\ served.keys = <<161, 2, 1, 0, 0, 0>>
    /\ event = [type |-> "EV_REL", code |-> "REL_X", value |-> 127]
    /\ cpc = "waiting"
    /\ Head(queue).keys = <<161, 2, 1, 127, 0, 0>>
====
